---- MODULE Spec2Model ----
(***************************************************************************)
(* A model of fugue's native (pandas) execution engine and of the          *)
(* transformer runners that are handed to it:                              *)
(*   src/fugue/execution/native_execution_engine.py                        *)
(*       SqliteEngine.select, NativeExecutionEngine.map / union /          *)
(*       subtract / intersect                                              *)
(*   src/fugue/extensions/_builtins/processors.py                          *)
(*       _TransformerRunner.run / on_init, _CoTransformerRunner.run,       *)
(*       RunTransformer.cotransform, RunJoin.process,                      *)
(*       RunSetOperation.process                                           *)
(* and of PartitionSpec / PartitionCursor as                               *)
(*   src/tests/fugue/collections/test_partition.py exercises them.         *)
(*                                                                         *)
(* A schema is a sequence of <<name, type>> pairs, a row a sequence of     *)
(* values in schema order, a dataset a sequence of rows.                   *)
(***************************************************************************)
EXTENDS Integers, Sequences, FiniteSets, TLC

VARIABLES
    pc,         \* position of the running map call
    call,       \* the arguments of the running map call
    cursor,     \* the PartitionCursor made at line 112
    todo,       \* groups safe_groupby_apply has not handed to _map yet
    outs,       \* the frames _map has returned so far, in call order
    calls,      \* every invocation of on_init and map_func, in order
    result,     \* what map returned or raised
    heap,       \* the metadata objects: id -> [kind, data, readonly]
    lastSet,    \* how the writes to the metadata objects after map ended
    runIn,      \* arguments of the last standalone runner.run call
    runOut,     \* what that call returned or raised
    setop,      \* the last union / subtract / intersect call and its outcome
    sqlite,     \* the in-memory database of the latest select call
    selects,    \* the select calls so far: mapping, statement, outcome
    co,         \* the RunTransformer.cotransform call: input, events, outcome
    fold,       \* the RunJoin / RunSetOperation call: inputs, engine calls, outcome
    specs,      \* two PartitionSpec constructions and what they normalise to
    pcur        \* a PartitionCursor, where it came from and its set calls

vars == <<pc, call, cursor, todo, outs, calls, result, heap, lastSet,
          runIn, runOut, setop, sqlite, selects, co, fold, specs, pcur>>

mapVars == <<pc, call, cursor, todo, outs, calls, result, heap, lastSet>>
runVars == <<runIn, runOut>>
sqlVars == <<sqlite, selects>>
restVars == <<co, fold, specs, pcur>>
notMap == <<runIn, runOut, setop, sqlite, selects, restVars>>

(***************************************************************************)
(* Bounds of the exploration.                                              *)
(***************************************************************************)
MaxRows == 3
\* the values a cell holds
Vals == {0, 1}

None == "None"

(***************************************************************************)
(* Schemas and rows.                                                       *)
(***************************************************************************)
NameSet(schema) == {schema[i][1] : i \in 1..Len(schema)}

\* Schema.index_of_key, 1-based
IndexOf(schema, name) == CHOOSE i \in 1..Len(schema) : schema[i][1] = name

\* the dataset the engine is handed: a:int is the grouping column
InSchema == <<<<"a", "int">>, <<"b", "int">>>>

Rows == [1..Len(InSchema) -> Vals]

RECURSIVE SeqsUpTo(_, _)
SeqsUpTo(S, n) ==
    IF n = 0 THEN {<<>>}
    ELSE LET shorter == SeqsUpTo(S, n - 1)
         IN  shorter \cup {Append(s, x) : s \in {t \in shorter : Len(t) = n - 1}, x \in S}

Datasets == SeqsUpTo(Rows, MaxRows)

\* the schema the transformer declares (get_output_schema)
OutSchema == <<<<"a", "int">>, <<"b", "int">>>>

\* the schemas a transform may actually return: the declared one, the
\* declared columns in another order, a declared column missing
RetSchemas == {OutSchema,
               <<<<"b", "int">>, <<"a", "int">>>>,
               <<<<"a", "int">>>>}

(***************************************************************************)
(* Exceptions.  `except (T1, .., Tn)` catches an exception whose class is  *)
(* one of the Ti or a subclass of one (Python's isinstance).               *)
(***************************************************************************)
\* the base class of each exception class (builtins)
Base(t) ==
    CASE t = "KeyError" -> "LookupError"
      [] t = "LookupError" -> "Exception"
      [] t = "ValueError" -> "Exception"
      [] OTHER -> None

RECURSIVE IsSubclass(_, _)
IsSubclass(t, u) ==
    IF t = u THEN TRUE
    ELSE IF Base(t) = None THEN FALSE
    ELSE IsSubclass(Base(t), u)

\* `except self.ignore_errors`, processors.py:177 and :206
Caught(exc, ignore_errors) ==
    \E i \in 1..Len(ignore_errors) : IsSubclass(exc, ignore_errors[i])

\* what a user transform raises in the explored runs
Raised == {"KeyError", "ValueError"}

\* the ignore_errors lists of the explored runs
IgnoreLists == {<<>>, <<"LookupError">>, <<"ValueError", "KeyError">>}

(***************************************************************************)
(* The user transform.  Called on a frame it either raises or returns a    *)
(* frame of a schema of its choice; a returned frame holds, for each input *)
(* row, the input's value of every column the returned schema names.       *)
(***************************************************************************)
Returned(schema, rows) == [kind |-> "return", schema |-> schema, rows |-> rows, exc |-> None]

Raise(exc) == [kind |-> "raise", schema |-> <<>>, rows |-> <<>>, exc |-> exc]

Project(row, from, to) == [i \in 1..Len(to) |-> row[IndexOf(from, to[i][1])]]

\* what one invocation of the user transform may do: raise exc, or (exc =
\* None) return a frame of the given schema
Behaviours ==
    {[exc |-> None, schema |-> s] : s \in RetSchemas}
        \cup {[exc |-> e, schema |-> <<>>] : e \in Raised}

transform(behaviour, rows) ==
    IF behaviour.exc # None THEN Raise(behaviour.exc)
    ELSE Returned(behaviour.schema,
                  [i \in 1..Len(rows) |-> Project(rows[i], InSchema, behaviour.schema)])

(***************************************************************************)
(* _TransformerRunner.run and _CoTransformerRunner.run                     *)
(* (processors.py:169-178, 198-207).  to_local_bounded_df keeps schema and *)
(* rows of the frame it is given.                                          *)
(***************************************************************************)
to_local_bounded_df(out) == out

\* run with a bare `except` in place of `except self.ignore_errors`
run_catch_all(ignore_errors, output_schema, behaviour, rows) ==
    LET out == transform(behaviour, rows)
    IN  IF Len(ignore_errors) = 0 THEN out
        ELSE IF out.kind = "raise" THEN Returned(output_schema, <<>>)
        ELSE to_local_bounded_df(out)

TransformerRunner_run(ignore_errors, output_schema, behaviour, rows) ==
    LET out == transform(behaviour, rows)
    IN  IF Len(ignore_errors) = 0 THEN out
        ELSE IF out.kind = "raise" /\ Caught(out.exc, ignore_errors)
             THEN Returned(output_schema, <<>>)
        ELSE to_local_bounded_df(out)

CoTransformerRunner_run(ignore_errors, output_schema, behaviour, rows) ==
    LET out == transform(behaviour, rows)
    IN  IF Len(ignore_errors) = 0 THEN out
        ELSE IF out.kind = "raise" /\ Caught(out.exc, ignore_errors)
             THEN Returned(output_schema, <<>>)
        ELSE to_local_bounded_df(out)

(***************************************************************************)
(* PartitionSpec and PartitionCursor (fugue/collections/partition.py).     *)
(***************************************************************************)
\* the partition_by lists and presorts of the explored calls; a
\* PartitionSpec never holds a column in both
PartitionBys == {<<>>, <<"a">>}

Presorts == {<<>>, <<<<"b", TRUE>>>>, <<<<"b", FALSE>>>>}

\* PartitionSpec.get_cursor(row_schema, physical_partition_no)
get_cursor(row_schema, partition_by, physical_partition_no) ==
    [row |-> <<>>, partition_no |-> 0, slice_no |-> 0,
     physical_partition_no |-> physical_partition_no,
     row_schema |-> row_schema,
     key_schema |-> [i \in 1..Len(partition_by) |->
                        row_schema[IndexOf(row_schema, partition_by[i])]],
     key_index |-> [i \in 1..Len(partition_by) |-> IndexOf(row_schema, partition_by[i])]]

\* PartitionCursor.set(row, partition_no, slice_no)
cursor_set(c, row, partition_no, slice_no) ==
    [c EXCEPT !.row = row, !.partition_no = partition_no, !.slice_no = slice_no]

\* the values of the key columns in the order the row holds them
key_value_array_row_order(c) ==
    LET idx == {c.key_index[i] : i \in 1..Len(c.key_index)}
        Nth(i) == CHOOSE j \in idx : Cardinality({k \in idx : k < j}) = i - 1
    IN  [i \in 1..Len(c.key_index) |-> c.row[Nth(i)]]

\* PartitionCursor.key_value_array
key_value_array(c) == [i \in 1..Len(c.key_index) |-> c.row[c.key_index[i]]]

\* PartitionCursor.key_value_dict, as a set of <<name, value>> pairs
key_value_dict(c) ==
    {<<c.key_schema[i][1], key_value_array(c)[i]>> : i \in 1..Len(c.key_schema)}

\* PartitionCursor.__getitem__
cursor_getitem(c, name) == c.row[IndexOf(c.row_schema, name)]

(***************************************************************************)
(* Grouping and sorting (pandas, through qpd's safe_groupby_apply).        *)
(***************************************************************************)
KeyOf(row, schema, partition_by) ==
    [i \in 1..Len(partition_by) |-> row[IndexOf(schema, partition_by[i])]]

GroupKeys(df, schema, partition_by) ==
    {KeyOf(df[i], schema, partition_by) : i \in 1..Len(df)}

GroupRows(df, schema, partition_by, key) ==
    LET InGroup(row) == KeyOf(row, schema, partition_by) = key
    IN  SelectSeq(df, InGroup)

\* r1 sorts strictly before r2 under presort[i..]
RECURSIVE Before(_, _, _, _)
Before(r1, r2, presort, i) ==
    IF i > Len(presort) THEN FALSE
    ELSE LET c == IndexOf(InSchema, presort[i][1])
         IN  IF r1[c] = r2[c] THEN Before(r1, r2, presort, i + 1)
             ELSE IF presort[i][2] THEN r1[c] < r2[c]
             ELSE r1[c] > r2[c]

RECURSIVE InsertSorted(_, _, _)
InsertSorted(sorted, r, presort) ==
    IF sorted = <<>> THEN <<r>>
    ELSE IF Before(r, Head(sorted), presort, 1) THEN <<r>> \o sorted
    ELSE <<Head(sorted)>> \o InsertSorted(Tail(sorted), r, presort)

\* pdf.sort_values(presort_keys, ascending=presort_asc); rows that tie keep
\* their order
RECURSIVE sort_values(_, _)
sort_values(rows, presort) ==
    IF rows = <<>> THEN <<>>
    ELSE InsertSorted(sort_values(SubSeq(rows, 1, Len(rows) - 1), presort),
                      rows[Len(rows)], presort)

(***************************************************************************)
(* Metadata objects.  A metadata object is a plain dict or a triad         *)
(* ParamDict; only a ParamDict can be made read-only, and a write to a     *)
(* read-only ParamDict raises and changes nothing.  The data of an object  *)
(* is a set of <<key, value>> pairs.                                       *)
(***************************************************************************)
Absent == [kind |-> "absent", data |-> {}, readonly |-> FALSE]

\* the metadata the caller of map passes: None, a dict or a ParamDict
CallerMetadata ==
    {Absent} \cup {[kind |-> k, data |-> {<<"k", 0>>}, readonly |-> FALSE] :
                   k \in {"dict", "ParamDict"}}

Put(data, key, value) == {p \in data : p[1] # key} \cup {<<key, value>>}

\* ParamDict(metadata, deep=True): a new object holding a copy of the data
ParamDict(h, ref) ==
    [kind |-> "ParamDict", data |-> IF ref = None THEN {} ELSE h[ref].data,
     readonly |-> FALSE]

\* ParamDict.set_readonly()
set_readonly(obj) == [obj EXCEPT !.readonly = TRUE]

\* obj[key] = value on the object at ref: raises on a read-only ParamDict
CanWrite(h, ref) == ~ h[ref].readonly

Written(h, ref, key, value) == [h EXCEPT ![ref].data = Put(@, key, value)]

(***************************************************************************)
(* NativeExecutionEngine.map (native_execution_engine.py:99-144), with     *)
(* map_func = _TransformerRunner.run and on_init either None or            *)
(* _TransformerRunner.on_init, as RunTransformer.transform calls it        *)
(* (processors.py:41-51).                                                  *)
(***************************************************************************)
NoResult == [status |-> "none", error |-> None, schema |-> <<>>, rows |-> <<>>,
             metadata |-> None]

Raises(error) == [NoResult EXCEPT !.status = "raised", !.error = error]

Returns(schema, rows, ref) ==
    [status |-> "returned", error |-> None, schema |-> schema, rows |-> rows,
     metadata |-> ref]

NoCall == [df |-> <<>>, partition_by |-> <<>>, presort |-> <<>>, on_init |-> FALSE,
           ignore_errors |-> <<>>, output_schema |-> <<>>, metadata |-> None,
           supplied |-> {}]

\* a record of one invocation of map_func: the cursor's fields at the call,
\* the frame passed, and what the call returned or raised
Invocation(c, df, out) ==
    [fn |-> "map_func", partition_no |-> c.partition_no, slice_no |-> c.slice_no,
     physical_partition_no |-> c.physical_partition_no, row |-> c.row,
     df |-> df, ok |-> out.kind = "return", out |-> out]

\* a record of one invocation of on_init(partition_no, df); the cursor
\* _TransformerRunner.on_init makes has physical_partition_no = partition_no
OnInitInvocation(partition_no, df, ok) ==
    LET c == get_cursor(InSchema, <<>>, partition_no)
    IN  [fn |-> "on_init", partition_no |-> partition_no, slice_no |-> c.slice_no,
         physical_partition_no |-> c.physical_partition_no, row |-> c.row,
         df |-> df, ok |-> ok, out |-> Returned(<<>>, <<>>)]

\* line 112, and the arguments of the call; call.supplied keeps the data
\* the metadata holds as map is called
map_enter ==
    /\ pc = "idle"
    /\ \E df \in Datasets, partition_by \in PartitionBys, presort \in Presorts,
          on_init \in BOOLEAN, ignore_errors \in IgnoreLists, m \in CallerMetadata :
          /\ call' = [df |-> df, partition_by |-> partition_by, presort |-> presort,
                      on_init |-> on_init, ignore_errors |-> ignore_errors,
                      output_schema |-> OutSchema,
                      metadata |-> IF m.kind = "absent" THEN None ELSE "caller",
                      supplied |-> m.data]
          /\ heap' = [heap EXCEPT !["caller"] = m]
          /\ cursor' = get_cursor(InSchema, partition_by, 0)
    /\ pc' = "on_init"
    /\ UNCHANGED <<todo, outs, calls, result, lastSet, notMap>>

\* on_init called with the number of the first group instead
on_init_partition_no_first_group == 0 + 1

\* the partition index on_init is called with, line 114
on_init_partition_no == 0

\* lines 113-114: _TransformerRunner.on_init (processors.py:180-186) makes a
\* cursor of its own for the transformer and calls the user's on_init, which
\* returns or raises
map_on_init ==
    /\ pc = "on_init"
    /\ \/ /\ ~ call.on_init
          /\ pc' = "dispatch"
          /\ UNCHANGED <<calls, result>>
       \/ /\ call.on_init
          /\ calls' = Append(calls, OnInitInvocation(on_init_partition_no, call.df, TRUE))
          /\ pc' = "dispatch"
          /\ UNCHANGED result
       \/ /\ call.on_init
          /\ \E exc \in Raised :
                /\ calls' = Append(calls,
                                   OnInitInvocation(on_init_partition_no, call.df, FALSE))
                /\ result' = Raises(exc)
          /\ pc' = "error"
    /\ UNCHANGED <<call, cursor, todo, outs, heap, lastSet, notMap>>

\* the single partition numbered as the groups are (line 137)
no_partition_cursor_counted(c, df) == cursor_set(c, df[1], c.partition_no + 1, 0)

\* line 117: the cursor of the single partition
no_partition_cursor(c, df) == cursor_set(c, df[1], 0, 0)

\* the assertion of lines 119-122 left out
schema_unchecked(schema, output_schema) == TRUE

\* lines 119-122
schema_matches(schema, output_schema) == schema = output_schema

\* line 124 left out
no_partition_metadata_writable(h, ref) == ParamDict(h, ref)

\* lines 123-124: the metadata object of the result
no_partition_metadata(h, ref) == set_readonly(ParamDict(h, ref))

\* lines 115-125: no partition.  to_local_df (line 116) and to_df (line 125)
\* keep the schema, the rows and the metadata object of the frame they get
map_no_partition ==
    /\ pc = "dispatch"
    /\ Len(call.partition_by) = 0
    /\ \/ /\ call.df = <<>>           \* peek_array of an empty frame raises
          /\ result' = Raises("FugueDataFrameEmptyError")
          /\ pc' = "error"
          /\ UNCHANGED <<cursor, calls, heap>>
       \/ /\ call.df # <<>>
          /\ \E behaviour \in Behaviours :
                LET c   == no_partition_cursor(cursor, call.df)
                    out == TransformerRunner_run(call.ignore_errors, call.output_schema,
                                                 behaviour, call.df)
                IN  /\ cursor' = c
                    /\ calls' = Append(calls, Invocation(c, call.df, out))
                    /\ IF out.kind = "raise"
                       THEN /\ result' = Raises(out.exc)
                            /\ pc' = "error"
                            /\ UNCHANGED heap
                       ELSE IF ~ schema_matches(out.schema, call.output_schema)
                       THEN /\ result' = Raises("AssertionError")
                            /\ pc' = "error"
                            /\ UNCHANGED heap
                       ELSE /\ heap' = [heap EXCEPT !["result"] =
                                            no_partition_metadata(heap, call.metadata)]
                            /\ result' = Returns(out.schema, out.rows, "result")
                            /\ pc' = "returned"
    /\ UNCHANGED <<call, todo, outs, lastSet, notMap>>

\* lines 126-129 and 141-143: safe_groupby_apply splits the frame by the
\* partition_by columns
map_groupby ==
    /\ pc = "dispatch"
    /\ Len(call.partition_by) > 0
    /\ todo' = GroupKeys(call.df, InSchema, call.partition_by)
    /\ pc' = "groups"
    /\ UNCHANGED <<call, cursor, outs, calls, result, heap, lastSet, notMap>>

\* lines 132-136: the frame handed to map_func for one group
group_input(pdf, presort) ==
    IF Len(presort) > 0 THEN sort_values(pdf, presort) ELSE pdf

\* the counter of line 137 not advanced
group_cursor_uncounted(c, input_df) == cursor_set(c, input_df[1], c.partition_no, 0)

\* line 137
group_cursor(c, input_df) == cursor_set(c, input_df[1], c.partition_no + 1, 0)

\* on_init run again at the head of every group
group_calls_with_on_init(c, input_df, out) ==
    <<OnInitInvocation(c.partition_no, input_df, TRUE), Invocation(c, input_df, out)>>

\* lines 138-139: what _map invokes for one group
group_calls(c, input_df, out) == <<Invocation(c, input_df, out)>>

\* lines 131-139: _map, applied to one group (the groups in any order)
_map ==
    /\ pc = "groups"
    /\ \E key \in todo, behaviour \in Behaviours :
          LET pdf      == GroupRows(call.df, InSchema, call.partition_by, key)
              input_df == group_input(pdf, call.presort)
              c        == group_cursor(cursor, input_df)
              out      == TransformerRunner_run(call.ignore_errors, call.output_schema,
                                                behaviour, input_df)
          IN  /\ cursor' = c
              /\ calls' = calls \o group_calls(c, input_df, out)
              /\ todo' = todo \ {key}
              /\ IF out.kind = "raise"
                 THEN /\ result' = Raises(out.exc)
                      /\ pc' = "error"
                      /\ UNCHANGED outs
                 ELSE /\ outs' = Append(outs, [schema |-> out.schema, rows |-> out.rows])
                      /\ UNCHANGED <<result, pc>>
    /\ UNCHANGED <<call, heap, lastSet, notMap>>


(***************************************************************************)
(* PandasDataFrame(result, output_schema, metadata), line 144              *)
(* (fugue/dataframe/pandas_dataframe.py and DataFrame.__init__).  A frame  *)
(* whose columns are not the given schema is cut to the schema's columns   *)
(* by name and cast (a missing column is a FugueDataFrameInitError); a     *)
(* ParamDict passed as metadata is kept as the object it is, anything else *)
(* is copied, and the object kept is made read-only.                       *)
(***************************************************************************)
\* a cell pandas fills in for a column one group's frame lacks
NaN == 0 - 1

Cell(row, from, name) ==
    IF name \in NameSet(from) THEN row[IndexOf(from, name)] ELSE NaN

\* the groups' frames under one another, cut to the columns of schema
RECURSIVE Concat(_, _)
Concat(frames, schema) ==
    IF frames = <<>> THEN <<>>
    ELSE LET f == Head(frames)
         IN  [i \in 1..Len(f.rows) |->
                 [j \in 1..Len(schema) |-> Cell(f.rows[i], f.schema, schema[j][1])]]
             \o Concat(Tail(frames), schema)

Columns(frames) == UNION {NameSet(frames[i].schema) : i \in 1..Len(frames)}

\* the metadata object of a frame built with `metadata`: <<heap, id>>
frame_metadata(h, ref) ==
    IF ref # None /\ h[ref].kind = "ParamDict"
    THEN <<[h EXCEPT ![ref] = set_readonly(@)], ref>>
    ELSE <<[h EXCEPT !["result"] = set_readonly(ParamDict(h, ref))], "result">>

\* line 144: with no group at all (an empty input) the frame pandas hands
\* back has none of the declared columns
map_return ==
    /\ pc = "groups"
    /\ todo = {}
    /\ \/ /\ NameSet(call.output_schema) \subseteq Columns(outs)
          /\ LET m == frame_metadata(heap, call.metadata)
             IN  /\ heap' = m[1]
                 /\ result' = Returns(call.output_schema,
                                      Concat(outs, call.output_schema), m[2])
          /\ pc' = "returned"
       \/ /\ ~ (NameSet(call.output_schema) \subseteq Columns(outs))
          /\ result' = Raises("FugueDataFrameInitError")
          /\ pc' = "error"
          /\ UNCHANGED heap
    /\ UNCHANGED <<call, cursor, todo, outs, calls, lastSet, notMap>>

(***************************************************************************)
(* After map has returned: the caller and the consumers of the result      *)
(* write to the metadata objects they hold.                                *)
(***************************************************************************)
NoSet == [result |-> "none", caller |-> "none"]

\* result.metadata["k"] = 1
write_result_metadata ==
    /\ pc = "returned"
    /\ IF CanWrite(heap, result.metadata)
       THEN /\ heap' = Written(heap, result.metadata, "k", 1)
            /\ lastSet' = [lastSet EXCEPT !.result = "written"]
       ELSE /\ lastSet' = [lastSet EXCEPT !.result = "raised"]
            /\ UNCHANGED heap
    /\ UNCHANGED <<pc, call, cursor, todo, outs, calls, result, notMap>>

\* metadata["k"] = 1 on the object the caller passed to map
write_caller_metadata ==
    /\ pc = "returned"
    /\ call.metadata # None
    /\ IF CanWrite(heap, call.metadata)
       THEN /\ heap' = Written(heap, call.metadata, "k", 1)
            /\ lastSet' = [lastSet EXCEPT !.caller = "written"]
       ELSE /\ lastSet' = [lastSet EXCEPT !.caller = "raised"]
            /\ UNCHANGED heap
    /\ UNCHANGED <<pc, call, cursor, todo, outs, calls, result, notMap>>

(***************************************************************************)
(* The specification of one map call.                                      *)
(***************************************************************************)
Init ==
    /\ pc = "idle"
    /\ call = NoCall
    /\ cursor = get_cursor(InSchema, <<>>, 0)
    /\ todo = {}
    /\ outs = <<>>
    /\ calls = <<>>
    /\ result = NoResult
    /\ heap = [id \in {"caller", "result"} |-> Absent]
    /\ lastSet = NoSet
    /\ runIn = <<>>
    /\ runOut = <<>>
    /\ setop = <<>>
    /\ sqlite = {}
    /\ selects = <<>>
    /\ co = <<>>
    /\ fold = <<>>
    /\ specs = <<>>
    /\ pcur = <<>>

Next ==
    \/ map_enter
    \/ map_on_init
    \/ map_no_partition
    \/ map_groupby
    \/ _map
    \/ map_return
    \/ write_result_metadata
    \/ write_caller_metadata

Spec == Init /\ [][Next]_vars

(***************************************************************************)
(* The runners called on their own: a behaviour is one call of             *)
(* _TransformerRunner.run or of _CoTransformerRunner.run.                  *)
(***************************************************************************)
runner_run ==
    /\ runIn = <<>>
    /\ \E ignore_errors \in IgnoreLists, behaviour \in Behaviours, rows \in Datasets :
          /\ runIn' = <<[runner |-> "_TransformerRunner", ignore_errors |-> ignore_errors,
                         behaviour |-> behaviour, rows |-> rows]>>
          /\ runOut' = <<TransformerRunner_run(ignore_errors, OutSchema, behaviour, rows)>>
    /\ UNCHANGED <<mapVars, setop, sqlVars, restVars>>

corunner_run ==
    /\ runIn = <<>>
    /\ \E ignore_errors \in IgnoreLists, behaviour \in Behaviours, rows \in Datasets :
          /\ runIn' = <<[runner |-> "_CoTransformerRunner", ignore_errors |-> ignore_errors,
                         behaviour |-> behaviour, rows |-> rows]>>
          /\ runOut' = <<CoTransformerRunner_run(ignore_errors, OutSchema, behaviour, rows)>>
    /\ UNCHANGED <<mapVars, setop, sqlVars, restVars>>

NextRun ==
    \/ runner_run
    \/ corunner_run

SpecRun == Init /\ [][NextRun]_vars

(***************************************************************************)
(* NativeExecutionEngine.union / subtract / intersect                      *)
(* (native_execution_engine.py:166-209).  A frame is [schema, rows]; the   *)
(* outcome of a call says whether as_pandas was reached (read).            *)
(***************************************************************************)
MaxSetRows == 2

SetSchemas == {<<<<"a", "int">>, <<"b", "int">>>>,
               <<<<"b", "int">>, <<"a", "int">>>>,
               <<<<"a", "int">>, <<"b", "str">>>>,
               <<<<"a", "int">>, <<"c", "int">>>>}

SetFrames == [schema : SetSchemas, rows : SeqsUpTo(Rows, MaxSetRows)]

Contains(rows, r) == \E i \in 1..Len(rows) : rows[i] = r

\* drop_duplicates: the first of equal rows stays
RECURSIVE Distinct(_)
Distinct(rows) ==
    IF rows = <<>> THEN <<>>
    ELSE LET init == Distinct(SubSeq(rows, 1, Len(rows) - 1))
             last == rows[Len(rows)]
         IN  IF Contains(init, last) THEN init ELSE Append(init, last)

\* pl_utils.union / except_df / intersect
pl_union(r1, r2, unique) == IF unique THEN Distinct(r1 \o r2) ELSE r1 \o r2

pl_except_df(r1, r2) ==
    LET Keep(r) == ~ Contains(r2, r)
    IN  Distinct(SelectSeq(r1, Keep))

pl_intersect(r1, r2) ==
    LET Keep(r) == Contains(r2, r)
    IN  Distinct(SelectSeq(r1, Keep))

SetFails(error) ==
    [status |-> "raised", error |-> error, schema |-> <<>>, rows |-> <<>>, read |-> FALSE]

SetReturns(schema, rows) ==
    [status |-> "returned", error |-> None, schema |-> schema, rows |-> rows, read |-> TRUE]

\* union without the schema assertion
union_unchecked(df1, df2, distinct) ==
    SetReturns(df1.schema, pl_union(df1.rows, df2.rows, distinct))

\* lines 166-177
union(df1, df2, distinct) ==
    IF df1.schema # df2.schema THEN SetFails("ValueError")
    ELSE SetReturns(df1.schema, pl_union(df1.rows, df2.rows, distinct))

\* subtract with the two assertions in the other order
subtract_schema_first(df1, df2, distinct) ==
    IF df1.schema # df2.schema THEN SetFails("ValueError")
    ELSE IF ~ distinct THEN SetFails("NotImplementedError")
    ELSE SetReturns(df1.schema, pl_except_df(df1.rows, df2.rows))

\* lines 179-193
subtract(df1, df2, distinct) ==
    IF ~ distinct THEN SetFails("NotImplementedError")
    ELSE IF df1.schema # df2.schema THEN SetFails("ValueError")
    ELSE SetReturns(df1.schema, pl_except_df(df1.rows, df2.rows))

\* lines 195-209
intersect(df1, df2, distinct) ==
    IF ~ distinct THEN SetFails("NotImplementedError")
    ELSE IF df1.schema # df2.schema THEN SetFails("ValueError")
    ELSE SetReturns(df1.schema, pl_intersect(df1.rows, df2.rows))

SetCall(how, df1, df2, distinct, outcome) ==
    <<[how |-> how, df1 |-> df1, df2 |-> df2, distinct |-> distinct, out |-> outcome]>>

call_union ==
    /\ setop = <<>>
    /\ \E df1 \in SetFrames, df2 \in SetFrames, distinct \in BOOLEAN :
          setop' = SetCall("union", df1, df2, distinct, union(df1, df2, distinct))
    /\ UNCHANGED <<mapVars, runVars, sqlVars, restVars>>

call_subtract ==
    /\ setop = <<>>
    /\ \E df1 \in SetFrames, df2 \in SetFrames, distinct \in BOOLEAN :
          setop' = SetCall("subtract", df1, df2, distinct, subtract(df1, df2, distinct))
    /\ UNCHANGED <<mapVars, runVars, sqlVars, restVars>>

call_intersect ==
    /\ setop = <<>>
    /\ \E df1 \in SetFrames, df2 \in SetFrames, distinct \in BOOLEAN :
          setop' = SetCall("intersect", df1, df2, distinct, intersect(df1, df2, distinct))
    /\ UNCHANGED <<mapVars, runVars, sqlVars, restVars>>

NextSetOp ==
    \/ call_union
    \/ call_subtract
    \/ call_intersect

SpecSetOp == Init /\ [][NextSetOp]_vars

(***************************************************************************)
(* SqliteEngine.select (native_execution_engine.py:42-47).  A database is  *)
(* a set of <<table name, rows>> pairs; a statement reads one table.       *)
(***************************************************************************)
MaxSelects == 2

TableNames == {"t1", "t2"}

SqlFrames == {<<>>, <<<<0, 0>>>>, <<<<1, 1>>>>}

\* the DataFrames a caller passes: name -> frame, as a set of pairs
SqlMappings ==
    {m \in SUBSET (TableNames \X SqlFrames) :
        \A p \in m, q \in m : p[1] = q[1] => p = q}

Tables(db) == {p[1] : p \in db}

TableRows(db, name) == (CHOOSE p \in db : p[1] = name)[2]

\* create_engine that hands back the database of the call before
create_engine_shared(previous) == previous

\* create_engine("sqlite:///:memory:"), line 43: a new, empty database
create_engine(previous) == {}

\* DataFrame.to_sql(k, sql_engine, if_exists="replace"), line 45
to_sql(db, name, rows) == {p \in db : p[1] # name} \cup {<<name, rows>>}

\* lines 44-45; the tables of dfs have distinct names, so the order of the
\* loop does not show
RECURSIVE to_sql_all(_, _)
to_sql_all(db, dfs) ==
    IF dfs = {} THEN db
    ELSE LET p == CHOOSE q \in dfs : TRUE
         IN  to_sql_all(to_sql(db, p[1], p[2]), dfs \ {p})

\* pd.read_sql_query(statement, sql_engine), line 46, for SELECT * FROM table
read_sql_query(table, db) ==
    IF table \in Tables(db)
    THEN [status |-> "returned", error |-> None, rows |-> TableRows(db, table)]
    ELSE [status |-> "raised", error |-> "OperationalError", rows |-> <<>>]

select ==
    /\ Len(selects) < MaxSelects
    /\ \E dfs \in SqlMappings, statement \in TableNames :
          LET db == to_sql_all(create_engine(sqlite), dfs)
          IN  /\ sqlite' = db
              /\ selects' = Append(selects,
                                   [dfs |-> dfs, statement |-> statement,
                                    visible |-> Tables(db),
                                    out |-> read_sql_query(statement, db)])
    /\ UNCHANGED <<mapVars, runVars, setop, restVars>>

NextSql ==
    \/ select

SpecSql == Init /\ [][NextSql]_vars

(***************************************************************************)
(* RunTransformer.cotransform (processors.py:53-71).  The input is the     *)
(* carrier frame of a zip: its metadata says whether it is serialized and  *)
(* which of its columns hold the serialized frames.  The events of a call  *)
(* are the invocations of the transformer and of the engine, in order.     *)
(***************************************************************************)
CoSchema == <<<<"a", "int">>, <<"s0", "bytes">>, <<"s1", "bytes">>>>

\* the metadata of the explored carrier frames; serialized is "absent" when
\* the metadata has no such key, has_cols and has_schemas say whether it has
\* the keys "serialized_cols" and "schemas"
CoMetadata ==
    [serialized : {"absent", "False", "True"},
     has_cols : BOOLEAN,
     has_schemas : BOOLEAN,
     serialized_cols : {<<"s0">>, <<"s0", "s1">>}]

\* the assertion of lines 55-57 left out
serialized_not_required(metadata) == TRUE

\* line 56: df.metadata.get("serialized", False)
metadata_serialized(metadata) == metadata.serialized = "True"

\* line 58: Schema - list of names
SchemaMinus(schema, names) ==
    LET Keep(col) == \A i \in 1..Len(names) : names[i] # col[1]
    IN  SelectSeq(schema, Keep)

CoEvent(fn, schema) == [fn |-> fn, schema |-> schema]

CoOutcome(status, error, key_schema, events) ==
    [status |-> status, error |-> error, key_schema |-> key_schema, events |-> events]

\* lines 55-71: get_output_schema returns a schema or raises (behaviour), and
\* so does the engine's comap (comap_exc), which is handed the output schema
cotransform_call(schema, metadata, behaviour, comap_exc) ==
    IF ~ metadata_serialized(metadata)
    THEN CoOutcome("raised", "AssertionError", <<>>, <<>>)
    ELSE IF ~ metadata.has_cols
    THEN CoOutcome("raised", "KeyError", <<>>, <<>>)
    ELSE LET key_schema == SchemaMinus(schema, metadata.serialized_cols)
             asked == <<CoEvent("get_output_schema", <<>>)>>
             mapped == Append(asked, CoEvent("comap", behaviour.schema))
         IN  IF ~ metadata.has_schemas       \* line 61: df.metadata["schemas"]
             THEN CoOutcome("raised", "KeyError", key_schema, <<>>)
             ELSE IF behaviour.exc # None
             THEN CoOutcome("raised", behaviour.exc, key_schema, asked)
             ELSE IF comap_exc # None
             THEN CoOutcome("raised", comap_exc, key_schema, mapped)
             ELSE CoOutcome("returned", None, key_schema, mapped)

cotransform ==
    /\ co = <<>>
    /\ \E metadata \in CoMetadata, behaviour \in Behaviours,
          comap_exc \in Raised \cup {None}, ignore_errors \in IgnoreLists :
          co' = <<[schema |-> CoSchema, metadata |-> metadata,
                   ignore_errors |-> ignore_errors,
                   get_output_schema |-> behaviour, comap |-> comap_exc,
                   out |-> cotransform_call(CoSchema, metadata, behaviour, comap_exc)]>>
    /\ UNCHANGED <<mapVars, runVars, setop, sqlVars, fold, specs, pcur>>

NextCo ==
    \/ cotransform

SpecCo == Init /\ [][NextCo]_vars

(***************************************************************************)
(* RunJoin.process and RunSetOperation.process (processors.py:74-100).     *)
(* A parameter is [given, value]; params.get(key, default) is the value    *)
(* when given and the default otherwise.  The calls of a run are the       *)
(* engine calls it made, in order, each with its operands and outcome.     *)
(***************************************************************************)
MaxInputs == 3

Param(value) == [given |-> TRUE, value |-> value]

\* ParamDict.get(key, default)
params_get(param, default) == IF param.given THEN param.value ELSE default

\* the how of the explored runs; None is a run whose params have no "how"
JoinHows == {"inner", "left_outer", None}

SetHows == {"union", "subtract", "intersect", "xor", None}

Ons == {[given |-> FALSE, value |-> <<>>], Param(<<"a">>)}

Distincts == {[given |-> FALSE, value |-> FALSE], Param(TRUE), Param(FALSE)}

FoldOutcome(status, error, df, made) ==
    [status |-> status, error |-> error, df |-> df, calls |-> made]

EngineCall(fn, df1, df2, how, arg, ok) ==
    [fn |-> fn, df1 |-> df1, df2 |-> df2, how |-> how, arg |-> arg, ok |-> ok]

\* every call is handed the first input as its left operand
left_operand_first(df, dfs) == dfs[1]

\* lines 82 and 99: the left operand of a call is the accumulated frame
left_operand(df, dfs) == df

\* RunJoin: an input frame is <<i>>, the frame a join returns is <<0>> followed
\* by its two operands; the join of index fails, if any, raises
JoinInputs == {<<1>>, <<2>>, <<3>>}

JoinResult(df1, df2) == <<0>> \o df1 \o df2

\* lines 81-82, from index i on
RECURSIVE join_loop(_, _, _, _, _, _, _)
join_loop(dfs, i, df, how, on, fails, made) ==
    IF i > Len(dfs) THEN FoldOutcome("returned", None, df, made)
    ELSE LET df1 == left_operand(df, dfs)
         IN  IF fails = i
             THEN FoldOutcome("raised", "ValueError", <<>>,
                              Append(made, EngineCall("join", df1, dfs[i], how, on, FALSE)))
             ELSE join_loop(dfs, i + 1, JoinResult(df1, dfs[i]), how, on, fails,
                            Append(made, EngineCall("join", df1, dfs[i], how, on, TRUE)))

\* lines 75-83
RunJoin_process(dfs, how, on, fails) ==
    IF Len(dfs) = 1 THEN FoldOutcome("returned", None, dfs[1], <<>>)
    ELSE IF how = None THEN FoldOutcome("raised", "KeyError", <<>>, <<>>)
    ELSE join_loop(dfs, 2, dfs[1], how, params_get(on, <<>>), fails, <<>>)

\* RunSetOperation: the frames are those of union, subtract and intersect
FoldSchemas == {<<<<"a", "int">>, <<"b", "int">>>>, <<<<"a", "int">>, <<"b", "str">>>>}

FoldFrames == [schema : FoldSchemas, rows : {<<<<0, 0>>>>, <<<<0, 1>>, <<0, 0>>>>}]

AsFrame(out) == [schema |-> out.schema, rows |-> out.rows]

NoFrame == [schema |-> <<>>, rows |-> <<>>]

\* lines 90-94: the engine function of a how
func(how, df1, df2, distinct) ==
    CASE how = "union" -> union(df1, df2, distinct)
      [] how = "subtract" -> subtract(df1, df2, distinct)
      [] how = "intersect" -> intersect(df1, df2, distinct)

\* lines 98-99, from index i on
RECURSIVE set_loop(_, _, _, _, _, _)
set_loop(dfs, i, df, how, distinct, made) ==
    IF i > Len(dfs) THEN FoldOutcome("returned", None, df, made)
    ELSE LET df1 == left_operand(df, dfs)
             out == func(how, df1, dfs[i], distinct)
         IN  IF out.status = "raised"
             THEN FoldOutcome("raised", out.error, NoFrame,
                              Append(made, EngineCall(how, df1, dfs[i], how, distinct, FALSE)))
             ELSE set_loop(dfs, i + 1, AsFrame(out), how, distinct,
                           Append(made, EngineCall(how, df1, dfs[i], how, distinct, TRUE)))

\* lines 87-100
RunSetOperation_process(dfs, how, distinct) ==
    IF Len(dfs) = 1 THEN FoldOutcome("returned", None, dfs[1], <<>>)
    ELSE IF how \notin {"union", "subtract", "intersect"}
    THEN FoldOutcome("raised", "KeyError", NoFrame, <<>>)
    ELSE set_loop(dfs, 2, dfs[1], how, params_get(distinct, TRUE), <<>>)

FoldRun(proc, dfs, how, arg, out) ==
    <<[proc |-> proc, dfs |-> dfs, how |-> how, arg |-> arg, out |-> out]>>

run_join ==
    /\ fold = <<>>
    /\ \E dfs \in SeqsUpTo(JoinInputs, MaxInputs) \ {<<>>}, how \in JoinHows, on \in Ons,
          fails \in 0..MaxInputs :
          /\ fails # 1
          /\ fails <= Len(dfs)
          /\ fold' = FoldRun("RunJoin", dfs, how, params_get(on, <<>>),
                             RunJoin_process(dfs, how, on, fails))
    /\ UNCHANGED <<mapVars, runVars, setop, sqlVars, co, specs, pcur>>

run_set_operation ==
    /\ fold = <<>>
    /\ \E dfs \in SeqsUpTo(FoldFrames, MaxInputs) \ {<<>>}, how \in SetHows,
          distinct \in Distincts :
          fold' = FoldRun("RunSetOperation", dfs, how, params_get(distinct, TRUE),
                          RunSetOperation_process(dfs, how, distinct))
    /\ UNCHANGED <<mapVars, runVars, setop, sqlVars, co, specs, pcur>>

NextFold ==
    \/ run_join
    \/ run_set_operation

SpecFold == Init /\ [][NextFold]_vars

(***************************************************************************)
(* PartitionSpec construction and identity, as test_determinism            *)
(* (src/tests/fugue/collections/test_partition.py:127-138) uses them.  A   *)
(* spec is built from keyword arguments, a sequence in the order they are  *)
(* written; an argument is [key, kind, list, int, str], of which only the  *)
(* field its kind names is meaningful.                                     *)
(***************************************************************************)
ByArg(key, columns) ==
    [key |-> key, kind |-> "list", list |-> columns, int |-> 0, str |-> ""]

IntArg(key, n) == [key |-> key, kind |-> "int", list |-> <<>>, int |-> n, str |-> ""]

StrArg(key, s) == [key |-> key, kind |-> "str", list |-> <<>>, int |-> 0, str |-> s]

ByKeys == {"by", "partition_by"}

NumKeys == {"num", "num_partitions"}

ByArgs == {ByArg(k, c) : k \in ByKeys, c \in {<<"a">>, <<"a", "b">>, <<"b", "a">>}}

NumArgs ==
    {IntArg(k, n) : k \in NumKeys, n \in {0, 2}}
        \cup {StrArg(k, s) : k \in NumKeys, s \in {"0", "2"}}

\* the keyword arguments of the explored constructions: each field given at
\* most once, in either order
Kwargs ==
    {<<>>} \cup {<<x>> : x \in ByArgs \cup NumArgs}
           \cup {<<x, y>> : x \in ByArgs, y \in NumArgs}
           \cup {<<y, x>> : x \in ByArgs, y \in NumArgs}

Given(kwargs, keys) == {i \in 1..Len(kwargs) : kwargs[i].key \in keys}

ArgOf(kwargs, keys) == kwargs[CHOOSE i \in Given(kwargs, keys) : TRUE]

Digits == <<"0", "1", "2", "3", "4", "5", "6", "7", "8", "9">>

\* Python's str of a number or of a string
str(arg) == IF arg.kind = "int" THEN Digits[arg.int + 1] ELSE arg.str

\* a spec built without num has no num_partitions at all
num_partitions_unset == ""

\* the num_partitions of a spec built without num
num_partitions_default == "0"

\* PartitionSpec(**kwargs): the normalised fields
PartitionSpec(kwargs) ==
    [partition_by |-> IF Given(kwargs, ByKeys) = {} THEN <<>>
                      ELSE ArgOf(kwargs, ByKeys).list,
     num_partitions |-> IF Given(kwargs, NumKeys) = {} THEN num_partitions_default
                        ELSE str(ArgOf(kwargs, NumKeys)),
     presort |-> <<>>,
     algo |-> "hash"]

\* PartitionSpec.jsondict: the fields in their fixed order
jsondict(p) == <<p.partition_by, p.num_partitions, p.presort, p.algo>>

\* triad's to_uuid, a hash of the canonical document, taken as free of
\* collisions
to_uuid(p) == <<"uuid", jsondict(p)>>

construct_specs ==
    /\ specs = <<>>
    /\ \E a \in Kwargs, b \in Kwargs :
          specs' = <<[a |-> a, b |-> b,
                      pa |-> PartitionSpec(a), pb |-> PartitionSpec(b),
                      ua |-> to_uuid(PartitionSpec(a)), ub |-> to_uuid(PartitionSpec(b))]>>
    /\ UNCHANGED <<mapVars, runVars, setop, sqlVars, co, fold, pcur>>

NextIdentity ==
    \/ construct_specs

SpecIdentity == Init /\ [][NextIdentity]_vars

(***************************************************************************)
(* A PartitionCursor on its own, as test_partition_cursor                  *)
(* (src/tests/fugue/collections/test_partition.py:93-108) uses it: made by *)
(* get_cursor, then set any number of times.                               *)
(***************************************************************************)
MaxSets == 2

CursorSchema == <<<<"a", "int">>, <<"b", "int">>, <<"c", "int">>, <<"d", "int">>>>

CursorRows == [1..Len(CursorSchema) -> {1, 2}]

CursorPartitionBys == {<<>>, <<"a">>, <<"b", "a">>, <<"c", "b">>}

PhysicalPartitionNos == {0, 2}

PartitionNos == {0, 5}

SliceNos == {0, 6}

NoArgs == [row |-> <<>>, partition_no |-> 0, slice_no |-> 0]

\* c = p.get_cursor(s, n)
cursor_get ==
    /\ pcur = <<>>
    /\ \E partition_by \in CursorPartitionBys, n \in PhysicalPartitionNos :
          pcur' = <<[partition_by |-> partition_by, n |-> n,
                     c |-> get_cursor(CursorSchema, partition_by, n),
                     sets |-> 0, last |-> NoArgs]>>
    /\ UNCHANGED <<mapVars, runVars, setop, sqlVars, co, fold, specs>>

\* c.set(row, partition_no, slice_no)
cursor_set_call ==
    /\ pcur # <<>>
    /\ pcur[1].sets < MaxSets
    /\ \E row \in CursorRows, partition_no \in PartitionNos, slice_no \in SliceNos :
          pcur' = <<[pcur[1] EXCEPT
                        !.c = cursor_set(@, row, partition_no, slice_no),
                        !.sets = @ + 1,
                        !.last = [row |-> row, partition_no |-> partition_no,
                                  slice_no |-> slice_no]]>>
    /\ UNCHANGED <<mapVars, runVars, setop, sqlVars, co, fold, specs>>

NextCursor ==
    \/ cursor_get
    \/ cursor_set_call

SpecCursor == Init /\ [][NextCursor]_vars

(***************************************************************************)
(* Properties of map.                                                      *)
(***************************************************************************)
MapFuncCalls == {i \in 1..Len(calls) : calls[i].fn = "map_func"}

OnInitCalls == {i \in 1..Len(calls) : calls[i].fn = "on_init"}

Partitioned == Len(call.partition_by) > 0

\* the unpartitioned call is past line 118
PastTransform == pc = "returned" \/ (pc = "error" /\ MapFuncCalls # {})

\* C1: in a map call with an empty partition_by, an on_init and a non-empty
\* dataset, on_init is invoked once, with partition index 0 and the whole
\* dataset, and has completed before the only invocation of map_func, which
\* gets the whole dataset and a cursor with partition_no 0, slice_no 0 and
\* the dataset's first row.
C1_OnInitOnceThenOneTransform ==
    (pc # "idle" /\ ~ Partitioned /\ call.on_init /\ call.df # <<>>) =>
        /\ Cardinality(OnInitCalls) <= 1
        /\ Cardinality(MapFuncCalls) <= 1
        /\ pc # "on_init" => Cardinality(OnInitCalls) = 1
        /\ PastTransform => Cardinality(MapFuncCalls) = 1
        /\ \A i \in OnInitCalls :
              /\ calls[i].partition_no = 0
              /\ calls[i].df = call.df
        /\ \A i \in MapFuncCalls :
              /\ \E j \in OnInitCalls : j < i /\ calls[j].ok
              /\ calls[i].df = call.df
              /\ calls[i].partition_no = 0
              /\ calls[i].slice_no = 0
              /\ calls[i].row = call.df[1]

C1_Witness ==
    /\ pc = "returned"
    /\ ~ Partitioned
    /\ call.on_init
    /\ Len(call.df) = 2
    /\ call.df[1] # call.df[2]
    /\ Len(calls) = 2
    /\ calls[2].row = call.df[1]

\* C2, as claimed: every invocation of map_func is preceded by a completed
\* invocation of on_init with the partition number the cursor shows.
C2_OnInitForSamePartitionNo ==
    (pc # "idle" /\ call.on_init) =>
        \A i \in MapFuncCalls :
            \E j \in OnInitCalls :
                j < i /\ calls[j].ok /\ calls[j].partition_no = calls[i].partition_no

\* C2, amended: every invocation of map_func is preceded by a completed
\* invocation of on_init for the physical partition the cursor shows
\* (physical_partition_no, which is 0); the cursor's partition_no, which
\* numbers the groups 1, 2, .., need not be a number on_init was called with.
C2_OnInitForPhysicalPartition ==
    (pc # "idle" /\ call.on_init) =>
        \A i \in MapFuncCalls :
            \E j \in OnInitCalls :
                /\ j < i
                /\ calls[j].ok
                /\ calls[j].partition_no = calls[i].physical_partition_no

C2_Witness ==
    /\ Partitioned
    /\ call.on_init
    /\ Cardinality(MapFuncCalls) = 2
    /\ calls[Len(calls)].partition_no = 2
    /\ calls[1].fn = "on_init"

\* some invocation of map_func returned a frame whose schema is not the
\* declared output schema
SchemaMismatch ==
    \E i \in MapFuncCalls :
        calls[i].out.kind = "return" /\ calls[i].out.schema # call.output_schema

\* C3: with an empty partition_by, when map_func returns a frame whose schema
\* is not output_schema, map raises and returns nothing, whatever the
\* ignore_errors list of the runner.
C3_MismatchRaisesUnpartitioned ==
    (~ Partitioned /\ SchemaMismatch) =>
        /\ pc = "error"
        /\ result.status = "raised"
        /\ result.error = "AssertionError"

C3_Witness ==
    /\ ~ Partitioned
    /\ SchemaMismatch
    /\ call.ignore_errors = <<"ValueError", "KeyError">>
    /\ result.status = "raised"

\* C4, as claimed: with a non-empty partition_by, when map_func returns for
\* some group a frame whose schema is not output_schema, map does not return
\* a result.
C4_MismatchRaisesPartitioned ==
    (Partitioned /\ SchemaMismatch) => result.status # "returned"

(***************************************************************************)
(* Properties of the runners.                                              *)
(***************************************************************************)
\* C5: run with an empty ignore list lets every exception of the transform
\* through; with a non-empty list an exception of a listed type (or of a
\* subclass of one) becomes an empty frame of the declared output schema and
\* any other exception goes through; a transform that raises nothing has its
\* frame returned.  For _TransformerRunner and _CoTransformerRunner alike.
C5_IgnoreErrorsPolicy ==
    runIn # <<>> =>
        LET in     == runIn[1]
            out    == runOut[1]
            exc    == in.behaviour.exc
            listed == \E i \in 1..Len(in.ignore_errors) :
                          IsSubclass(exc, in.ignore_errors[i])
        IN  /\ exc = None =>
                  /\ out.kind = "return"
                  /\ out.schema = in.behaviour.schema
                  /\ Len(out.rows) = Len(in.rows)
                  /\ \A i \in 1..Len(in.rows) :
                        \A j \in 1..Len(out.schema) :
                            out.rows[i][j] = in.rows[i][IndexOf(InSchema, out.schema[j][1])]
            /\ (exc # None /\ in.ignore_errors = <<>>) =>
                  out.kind = "raise" /\ out.exc = exc
            /\ (exc # None /\ in.ignore_errors # <<>> /\ listed) =>
                  out.kind = "return" /\ out.rows = <<>> /\ out.schema = OutSchema
            /\ (exc # None /\ in.ignore_errors # <<>> /\ ~ listed) =>
                  out.kind = "raise" /\ out.exc = exc

C5_Witness ==
    /\ runIn # <<>>
    /\ runIn[1].runner = "_CoTransformerRunner"
    /\ runIn[1].behaviour.exc = "KeyError"
    /\ runIn[1].ignore_errors = <<"LookupError">>
    /\ Len(runIn[1].rows) = 2
    /\ runOut[1] = Returned(OutSchema, <<>>)

(***************************************************************************)
(* Properties of the partitioned map.                                      *)
(***************************************************************************)
Count(rows, r) == Cardinality({i \in 1..Len(rows) : rows[i] = r})

\* rows is a rearrangement of the rows of call.df whose key is key
IsGroup(rows, key) ==
    /\ \A i \in 1..Len(rows) : KeyOf(rows[i], InSchema, call.partition_by) = key
    /\ \A r \in Rows :
          KeyOf(r, InSchema, call.partition_by) = key => Count(rows, r) = Count(call.df, r)

\* no row of rows sorts strictly before a row that precedes it
IsSorted(rows, presort) ==
    \A i \in 1..Len(rows), j \in 1..Len(rows) :
        i < j => ~ Before(rows[j], rows[i], presort, 1)

GroupOfCall(i) == KeyOf(calls[i].row, InSchema, call.partition_by)

\* C6: with a non-empty partition_by, map_func is invoked once per group of
\* partition-by key values, on the group's rows sorted by presort, with a
\* cursor whose row is the first of the sorted rows and whose slice_no is 0,
\* and the partition_no of successive invocations is strictly increasing.
C6_OncePerGroupSortedIncreasing ==
    (pc # "idle" /\ Partitioned) =>
        /\ \A i \in MapFuncCalls :
              /\ calls[i].df # <<>>
              /\ IsGroup(calls[i].df, GroupOfCall(i))
              /\ IsSorted(calls[i].df, call.presort)
              /\ calls[i].row = calls[i].df[1]
              /\ calls[i].slice_no = 0
        /\ \A i \in MapFuncCalls, j \in MapFuncCalls :
              i < j =>
                  /\ GroupOfCall(i) # GroupOfCall(j)
                  /\ calls[i].partition_no < calls[j].partition_no
        /\ pc = "returned" =>
              {GroupOfCall(i) : i \in MapFuncCalls}
                  = GroupKeys(call.df, InSchema, call.partition_by)

C6_Witness ==
    /\ pc = "returned"
    /\ Partitioned
    /\ call.presort # <<>>
    /\ Cardinality(MapFuncCalls) = 2
    /\ \E i \in MapFuncCalls :
          calls[i].df # GroupRows(call.df, InSchema, call.partition_by, GroupOfCall(i))

(***************************************************************************)
(* Properties of union, subtract and intersect.                            *)
(***************************************************************************)
\* C7: subtract and intersect with distinct = False raise
\* NotImplementedError on every input, also when the schemas differ; union
\* takes both values of distinct.
C7_DistinctFalseUnsupported ==
    setop # <<>> =>
        LET c == setop[1]
        IN  /\ (c.how \in {"subtract", "intersect"} /\ ~ c.distinct) =>
                  /\ c.out.status = "raised"
                  /\ c.out.error = "NotImplementedError"
            /\ (c.how = "union" /\ c.df1.schema = c.df2.schema) =>
                  c.out.status = "returned"

C7_Witness ==
    /\ setop # <<>>
    /\ setop[1].how = "subtract"
    /\ ~ setop[1].distinct
    /\ setop[1].df1.schema # setop[1].df2.schema
    /\ setop[1].out.error = "NotImplementedError"

\* C8: union, subtract and intersect raise when the two schemas differ, and
\* raise before any row is read; on equal schemas and distinct = True the
\* result has the schema of df1.
C8_SchemasMustMatch ==
    setop # <<>> =>
        LET c == setop[1]
        IN  /\ c.df1.schema # c.df2.schema =>
                  /\ c.out.status = "raised"
                  /\ ~ c.out.read
            /\ (c.df1.schema = c.df2.schema /\ c.distinct) =>
                  /\ c.out.status = "returned"
                  /\ c.out.schema = c.df1.schema

C8_Witness ==
    /\ setop # <<>>
    /\ setop[1].how = "union"
    /\ setop[1].df1.schema # setop[1].df2.schema
    /\ NameSet(setop[1].df1.schema) = NameSet(setop[1].df2.schema)
    /\ setop[1].df1.rows # <<>>
    /\ setop[1].out.error = "ValueError"

(***************************************************************************)
(* Properties of the result's metadata.                                    *)
(***************************************************************************)
\* C9: the metadata of the frame map returns holds the data the caller
\* supplied and is read-only: a write to it raises and changes nothing, and
\* (no partition) a write of the caller to its own object does not show in it.
C9_ResultMetadataFrozen ==
    pc = "returned" =>
        /\ heap[result.metadata].data = call.supplied
        /\ heap[result.metadata].readonly
        /\ lastSet.result # "written"
        /\ ~ Partitioned => result.metadata # call.metadata

C9_Witness ==
    /\ pc = "returned"
    /\ ~ Partitioned
    /\ lastSet.result = "raised"
    /\ lastSet.caller = "written"
    /\ heap["caller"].data # call.supplied
    /\ heap[result.metadata].data = call.supplied

(***************************************************************************)
(* Properties of select.                                                   *)
(***************************************************************************)
\* C10: in any sequence of select calls the tables a call's statement sees
\* are the frames of that call's own mapping: its outcome is the named frame
\* of the mapping, or an error when the mapping has no such name, whatever
\* earlier calls stored.
C10_SelectSeesOwnTablesOnly ==
    \A i \in 1..Len(selects) :
        LET c == selects[i]
        IN  /\ c.visible = Tables(c.dfs)
            /\ IF c.statement \in Tables(c.dfs)
               THEN c.out.status = "returned" /\ c.out.rows = TableRows(c.dfs, c.statement)
               ELSE c.out.status = "raised"

C10_Witness ==
    /\ Len(selects) = 2
    /\ "t1" \in Tables(selects[1].dfs)
    /\ selects[1].out.status = "returned"
    /\ "t1" \notin Tables(selects[2].dfs)
    /\ selects[2].statement = "t1"
    /\ selects[2].out.status = "raised"

(***************************************************************************)
(* Properties of RunTransformer.cotransform.                               *)
(***************************************************************************)
\* C11: cotransform on a frame whose metadata does not mark it as serialized
\* ("serialized" absent or false) ends in an assertion error before
\* get_output_schema is invoked and before the engine's comap, the only way
\* to the transformer's on_init and transform, is called.
C11_UnserializedRaisesFirst ==
    \A i \in 1..Len(co) :
        co[i].metadata.serialized \in {"absent", "False"} =>
            /\ co[i].out.status = "raised"
            /\ co[i].out.error = "AssertionError"
            /\ co[i].out.events = <<>>

C11_Witness ==
    /\ co # <<>>
    /\ co[1].metadata.serialized = "absent"
    /\ co[1].metadata.has_cols
    /\ co[1].out.status = "raised"
    /\ co[1].out.events = <<>>

(***************************************************************************)
(* Properties of RunJoin and RunSetOperation.                              *)
(***************************************************************************)
\* what the engine call c of a run f returned, as a frame
CallResult(f, c) ==
    IF f.proc = "RunJoin" THEN JoinResult(c.df1, c.df2)
    ELSE AsFrame(func(c.how, c.df1, c.df2, c.arg))

\* C12: a run of RunJoin or RunSetOperation on one input returns that input
\* and makes no engine call; a run on N >= 2 inputs makes its engine calls
\* in input order, the k-th with the result of the one before (the first
\* input for the first call) as left operand and input k+1 as right operand,
\* all with the run's how and on, or operation and distinct flag; a run that
\* returns has made exactly N-1 calls and returns the last call's result,
\* and a run stops short of N-1 calls only by raising, on its parameters or
\* from the last call it made.
C12_FoldsInputsLeftToRight ==
    \A j \in 1..Len(fold) :
        LET f == fold[j]
            N == Len(f.dfs)
            cs == f.out.calls
        IN  /\ N = 1 => (cs = <<>> /\ f.out.status = "returned" /\ f.out.df = f.dfs[1])
            /\ N >= 2 =>
                /\ Len(cs) <= N - 1
                /\ \A k \in 1..Len(cs) :
                      /\ cs[k].df2 = f.dfs[k + 1]
                      /\ cs[k].df1 = (IF k = 1 THEN f.dfs[1] ELSE CallResult(f, cs[k - 1]))
                      /\ cs[k].fn = (IF f.proc = "RunJoin" THEN "join" ELSE f.how)
                      /\ cs[k].how = f.how
                      /\ cs[k].arg = f.arg
                      /\ (k < Len(cs) => cs[k].ok)
                /\ f.out.status = "returned" =>
                      /\ Len(cs) = N - 1
                      /\ cs[N - 1].ok
                      /\ f.out.df = CallResult(f, cs[N - 1])
                /\ f.out.status = "raised" => (cs = <<>> \/ ~ cs[Len(cs)].ok)

C12_Witness ==
    /\ fold # <<>>
    /\ fold[1].proc = "RunSetOperation"
    /\ fold[1].how = "union"
    /\ Len(fold[1].dfs) = 3
    /\ fold[1].out.status = "returned"
    /\ Len(fold[1].out.calls) = 2
    /\ fold[1].out.calls[2].df1 # fold[1].dfs[1]

(***************************************************************************)
(* Properties of PartitionSpec identity.                                   *)
(***************************************************************************)
\* the partition_by list as written, and the number of partitions as the
\* number the argument denotes
SuppliedBy(kwargs) ==
    IF Given(kwargs, ByKeys) = {} THEN <<>> ELSE ArgOf(kwargs, ByKeys).list

SuppliedNum(kwargs) ==
    IF Given(kwargs, NumKeys) = {} THEN 0
    ELSE LET arg == ArgOf(kwargs, NumKeys)
         IN  IF arg.kind = "int" THEN arg.int
             ELSE (CHOOSE d \in 1..Len(Digits) : Digits[d] = arg.str) - 1

\* C13: two specs written with the same partition_by list and the same
\* number of partitions have equal uuids and compare equal, whatever the
\* order and names of the keywords, whether num is an integer or its
\* decimal string, and whether num is 0 or not given; two specs whose
\* partition_by lists hold the same columns in a different order have
\* different uuids and compare unequal.
C13_IdentityOfNormalisedFields ==
    \A i \in 1..Len(specs) :
        LET s == specs[i]
        IN  /\ (SuppliedBy(s.a) = SuppliedBy(s.b) /\ SuppliedNum(s.a) = SuppliedNum(s.b))
                  => (s.ua = s.ub /\ s.pa = s.pb)
            /\ (SuppliedBy(s.a) # SuppliedBy(s.b)
                    /\ {SuppliedBy(s.a)[k] : k \in 1..Len(SuppliedBy(s.a))}
                          = {SuppliedBy(s.b)[k] : k \in 1..Len(SuppliedBy(s.b))})
                  => (s.ua # s.ub /\ s.pa # s.pb)

C13_Witness ==
    /\ specs # <<>>
    /\ specs[1].a = <<ByArg("by", <<"a">>), IntArg("num", 2)>>
    /\ specs[1].b = <<StrArg("num", "2"), ByArg("by", <<"a">>)>>
    /\ specs[1].ua = specs[1].ub
    /\ specs[1].pa = specs[1].pb

(***************************************************************************)
(* Properties of PartitionCursor.                                          *)
(***************************************************************************)
\* the value a row of the cursor's schema holds in the named column
ValueAt(row, name) ==
    row[CHOOSE i \in 1..Len(CursorSchema) : CursorSchema[i][1] = name]

\* C14: after any sequence of set calls on a cursor made by
\* get_cursor(row_schema, n) from a spec with partition_by K, the last being
\* set(row, p, s): the cursor's row is row, its partition_no p and its
\* slice_no s; key_value_array lists the row's values of the columns of K in
\* the order of K; key_value_dict maps each column of K to its value in the
\* row; cursor[name] is the row's value in column name; and
\* physical_partition_no is still n, row_schema the schema given and
\* key_schema the columns of K in the order of K.
C14_CursorAfterSet ==
    \A i \in 1..Len(pcur) :
        LET t == pcur[i]
            K == t.partition_by
        IN  t.sets >= 1 =>
                /\ t.c.row = t.last.row
                /\ t.c.partition_no = t.last.partition_no
                /\ t.c.slice_no = t.last.slice_no
                /\ key_value_array(t.c) = [k \in 1..Len(K) |-> ValueAt(t.last.row, K[k])]
                /\ key_value_dict(t.c) = {<<K[k], ValueAt(t.last.row, K[k])>> : k \in 1..Len(K)}
                /\ \A k \in 1..Len(CursorSchema) :
                      cursor_getitem(t.c, CursorSchema[k][1]) = t.last.row[k]
                /\ t.c.physical_partition_no = t.n
                /\ t.c.row_schema = CursorSchema
                /\ t.c.key_schema = [k \in 1..Len(K) |-> <<K[k], "int">>]

C14_Witness ==
    /\ pcur # <<>>
    /\ pcur[1].partition_by = <<"b", "a">>
    /\ pcur[1].n = 2
    /\ pcur[1].sets = 2
    /\ pcur[1].last = [row |-> <<1, 2, 2, 2>>, partition_no |-> 5, slice_no |-> 6]
    /\ key_value_array(pcur[1].c) = <<2, 1>>
    /\ key_value_dict(pcur[1].c) = {<<"a", 1>>, <<"b", 2>>}
    /\ cursor_getitem(pcur[1].c, "c") = 2
    /\ pcur[1].c.physical_partition_no = 2

(***************************************************************************)
(* Properties of on_init in the partitioned map.                           *)
(***************************************************************************)
\* C15: in a map call with a non-empty partition_by and an on_init, on_init
\* is invoked once the call is past line 114 and never more than once: it is
\* the first invocation of the call, with partition index 0 and the whole
\* input dataset, and it has returned before any group's map_func
\* invocation, however many groups follow; with no on_init it is never
\* invoked.
C15_OnInitOnceBeforeGroups ==
    (pc # "idle" /\ Partitioned) =>
        /\ ~ call.on_init => OnInitCalls = {}
        /\ call.on_init =>
              /\ OnInitCalls = (IF pc = "on_init" THEN {} ELSE {1})
              /\ \A i \in OnInitCalls :
                    /\ calls[i].partition_no = 0
                    /\ calls[i].df = call.df
              /\ MapFuncCalls # {} => calls[1].ok
              /\ \A j \in MapFuncCalls : j > 1

C15_Witness ==
    /\ pc = "returned"
    /\ Partitioned
    /\ call.on_init
    /\ Cardinality(GroupKeys(call.df, InSchema, call.partition_by)) = 2
    /\ Cardinality(MapFuncCalls) = 2
    /\ OnInitCalls = {1}
    /\ calls[1].df = call.df
    /\ calls[2].df # call.df

====
